---- MODULE Spec2Model ----
(***************************************************************************)
(* Terminal Pulse: the record store (LocalStorageService over the          *)
(* browser's localStorage) and the session / access layer (AuthProvider),  *)
(* with the user-management handlers that write the users collection.      *)
(*                                                                         *)
(* Values.  A JavaScript Date object with time t is DateObj(t); what       *)
(* JSON.stringify makes of it, and JSON.parse gives back, is the string    *)
(* IsoString(t).  null is Null, except for the reducer's error message,    *)
(* a string, whose null is NoError.  An entity is a record; an optional    *)
(* field that is missing is missing from the record's domain.              *)
(***************************************************************************)
EXTENDS Integers, Sequences, FiniteSets, TLC

VARIABLES
    localStorage,   \* the browser's key-value store: storage key -> parsed JSON value, Null when absent
    quotaExceeded,  \* TRUE while localStorage.setItem throws (storage quota exceeded)
    state,          \* the AuthProvider's reducer state: [currentUser, loading, error]
    now,            \* the wall clock read by new Date()
    created,        \* how many users createUser has made (the fresh part of its ids)
    last,           \* the call just made on the session, with what it was given and what it returned
    run,            \* the current run of consecutive wrong-password logins on one user
    attempts,       \* per user id, how the recorded login calls on that user ended, oldest first
    tabs,           \* per tab, a login call taken one store access at a time: where it is and what it holds
    page            \* the terminals page: its pending restart timers and its selected terminals

vars == <<localStorage, quotaExceeded, state, now, created, last, run, attempts, tabs, page>>

----------------------------------------------------------------------------
(* Bounds of the model *)

MaxClock == 2
MaxAttempts == 3
MaxCreated == 2
MaxPending == 2

----------------------------------------------------------------------------
(* Values *)

\* a call made on the session or on the store: its name, its arguments, what
\* it returned, and what it found (login: the failed attempts and the status
\* of the user it looked up; logout: whether there was a current user)
Call(op, args, ret, found) == [op |-> op, args |-> args, ret |-> ret, found |-> found]

Null == [kind |-> "null"]
NoError == "<null>"
DateObj(t) == [kind |-> "Date", t |-> t]
IsoString(t) == [kind |-> "string", t |-> t]

DateFields == {"lastLogin", "createdAt", "updatedAt", "lastSeen", "lastTransaction", "resolvedAt", "slaTarget"}

\* { ...a, ...b }: the fields of b override those of a
Spread(a, b) == [f \in (DOMAIN a) \cup (DOMAIN b) |-> IF f \in DOMAIN b THEN b[f] ELSE a[f]]

\* JSON.parse(JSON.stringify(entity)): a Date becomes its ISO string
JsonEntity(e) ==
    [f \in DOMAIN e |->
        IF f \in DateFields /\ e[f].kind = "Date" THEN IsoString(e[f].t) ELSE e[f]]

JsonList(list) == [i \in 1..Len(list) |-> JsonEntity(list[i])]

\* Array.prototype.includes on an array of strings
Includes(arr, x) == \E i \in 1..Len(arr) : arr[i] = x

\* Array.prototype.findIndex, given the indices whose elements satisfy the
\* test: the first of them, -1 when there is none
FindIndex(hits) ==
    IF hits = {} THEN -1 ELSE CHOOSE i \in hits : \A j \in hits : i <= j

----------------------------------------------------------------------------
(* Fixtures *)

SeedTime == 0

STORAGE_KEYS == {"users", "terminals", "tickets", "comments", "alerts", "metrics", "currentUser"}

SeedUser(id, fullName, username, password, role) ==
    [id |-> id, fullName |-> fullName, username |-> username,
     email |-> username \o "@stanbic.co.zw", password |-> password, role |-> role,
     status |-> "Active", failedLoginAttempts |-> 0,
     lastLogin |-> DateObj(SeedTime), createdAt |-> DateObj(SeedTime), updatedAt |-> DateObj(SeedTime)]

generateSampleUsers ==
    << SeedUser("user-admin-001", "Tendai Mukamuri", "admin.mukamuri", "admin123", "Administrator"),
       SeedUser("user-support-001", "Chipo Nhongo", "support.nhongo", "support123", "Support Agent"),
       SeedUser("user-manager-001", "Sarah Chigumba", "servicedesk.manager", "manager123", "Service Desk Manager"),
       Spread(SeedUser("user-merchant-001", "Tafadzwa Mutasa", "merchant.mutasa", "merchant123", "Merchant"),
              [assignedTerminals |-> <<"T001">>]) >>

SeedTerminal(id, status, t) ==
    [id |-> id, status |-> status, lastSeen |-> DateObj(t),
     createdAt |-> DateObj(SeedTime), updatedAt |-> DateObj(t)]

generateSampleTerminals(t) ==
    << SeedTerminal("T001", "Online", t), SeedTerminal("T002", "Online", t),
       SeedTerminal("T003", "Offline", t), SeedTerminal("T004", "Maintenance", t),
       SeedTerminal("T005", "Online", t) >>

\* the fixture ticket was opened ten days before the seeding
TenDays == 10

generateSampleTickets(t) ==
    << [id |-> "TKT-2025-001", terminalId |-> "T001", priority |-> "High", status |-> "Open",
        reportedBy |-> "user-admin-001", assignedTo |-> "user-support-001",
        createdAt |-> DateObj(t - TenDays), updatedAt |-> DateObj(t - TenDays),
        resolvedAt |-> Null, slaTarget |-> DateObj(t - TenDays), slaBreach |-> TRUE] >>

generateSampleAlerts(t) ==
    << [id |-> "alert-001", type |-> "Terminal Down", severity |-> "High",
        terminalId |-> "T003", acknowledged |-> FALSE, createdAt |-> DateObj(t)] >>

\* one day of the series; the figures drawn with Math.random() are left out
generateSampleMetrics(t) ==
    << [date |-> t, totalTerminals |-> 20] >>

----------------------------------------------------------------------------
(* LocalStorageService: the generic storage methods.  A store method that  *)
(* writes is an operator from the storage before the call to               *)
(* [ls |-> the storage after it, ret |-> what the method returns].         *)

\* what a key holds: the JSON text of data, here the value it parses to
Item(data) == [kind |-> "json", value |-> data]

\* setItem: the JSON text of data is written under key; when the write throws
\* the error is caught and logged, and the storage keeps its old value
setItem(ls, key, data) ==
    IF quotaExceeded THEN ls ELSE [ls EXCEPT ![key] = Item(data)]

\* getItem(key) is null: the key is absent
NoItem(ls, key) == ls[key] = Null

\* getItem: the parsed value, null when the key is absent
getItem(ls, key) == IF NoItem(ls, key) THEN Null ELSE ls[key].value

removeItem(ls, key) == [ls EXCEPT ![key] = Null]

\* initializeData: every collection whose key is absent is seeded
initializeData(ls, t) ==
    LET a == IF NoItem(ls, "users")
             THEN setItem(ls, "users", JsonList(generateSampleUsers)) ELSE ls
        b == IF NoItem(a, "terminals")
             THEN setItem(a, "terminals", JsonList(generateSampleTerminals(t))) ELSE a
        c == IF NoItem(b, "tickets")
             THEN setItem(b, "tickets", JsonList(generateSampleTickets(t))) ELSE b
        d == IF NoItem(c, "alerts")
             THEN setItem(c, "alerts", JsonList(generateSampleAlerts(t))) ELSE c
    IN  IF NoItem(d, "metrics")
        THEN setItem(d, "metrics", JsonList(generateSampleMetrics(t))) ELSE d

(* User management *)

getUsers(ls) == IF NoItem(ls, "users") THEN <<>> ELSE getItem(ls, "users")

\* Array.prototype.find on the users, given the indices that match: the first
\* match, Null (undefined) when none
FindUser(users, hits) ==
    LET i == FindIndex(hits) IN IF i = -1 THEN Null ELSE users[i]

getUserById(ls, id) ==
    LET users == getUsers(ls)
    IN  FindUser(users, {i \in 1..Len(users) : users[i].id = id})

\* user.username === username
UsernameMatches(user, username) == user.username = username

getUserByUsername(ls, username) ==
    LET users == getUsers(ls)
    IN  FindUser(users, {i \in 1..Len(users) : UsernameMatches(users[i], username)})

\* the id createUser makes from Date.now() and Math.random().  The chance that
\* two calls make the same id is taken to be nil: the n-th create of a run
\* makes the n-th id
FreshUserId(n) == "user-new-" \o ToString(n)

\* a createUser that puts the new user first (unshift for push)
createUser_prepends(ls, userData, n, t) ==
    LET users == getUsers(ls)
        newUser == Spread(Spread([id |-> FreshUserId(n)], userData),
                          [createdAt |-> DateObj(t), updatedAt |-> DateObj(t)])
    IN  [ls |-> setItem(ls, "users", JsonList(<<newUser>> \o users)), ret |-> newUser]

createUser(ls, userData, n, t) ==
    LET users == getUsers(ls)
        newUser == Spread(Spread([id |-> FreshUserId(n)], userData),
                          [createdAt |-> DateObj(t), updatedAt |-> DateObj(t)])
    IN  [ls |-> setItem(ls, "users", JsonList(Append(users, newUser))), ret |-> newUser]

\* an updateUser that replaces the user by the given fields: only the id is kept
updateUser_replaces(ls, id, updates, t) ==
    LET users == getUsers(ls)
        index == FindIndex({i \in 1..Len(users) : users[i].id = id})
        merged == Spread(Spread([id |-> id], updates), [updatedAt |-> DateObj(t)])
    IN  IF index = -1
        THEN [ls |-> ls, ret |-> Null]
        ELSE [ls |-> setItem(ls, "users", JsonList([users EXCEPT ![index] = merged])),
              ret |-> merged]

updateUser(ls, id, updates, t) ==
    LET users == getUsers(ls)
        index == FindIndex({i \in 1..Len(users) : users[i].id = id})
        merged == Spread(Spread(users[index], updates), [updatedAt |-> DateObj(t)])
    IN  IF index = -1
        THEN [ls |-> ls, ret |-> Null]
        ELSE [ls |-> setItem(ls, "users", JsonList([users EXCEPT ![index] = merged])),
              ret |-> merged]

\* a deleteUser that reports what it reads back after saving
deleteUser_readsBack(ls, id) ==
    LET users == getUsers(ls)
        Keep(user) == user.id # id
        filteredUsers == SelectSeq(users, Keep)
        saved == setItem(ls, "users", JsonList(filteredUsers))
    IN  IF Len(filteredUsers) = Len(users)
        THEN [ls |-> ls, ret |-> FALSE]
        ELSE [ls |-> saved, ret |-> Len(getUsers(saved)) < Len(users)]

\* a deleteUser that compares the lengths the wrong way round
deleteUser_wrongTest(ls, id) ==
    LET users == getUsers(ls)
        Keep(user) == user.id # id
        filteredUsers == SelectSeq(users, Keep)
    IN  IF Len(filteredUsers) # Len(users)
        THEN [ls |-> ls, ret |-> FALSE]
        ELSE [ls |-> setItem(ls, "users", JsonList(filteredUsers)), ret |-> TRUE]

deleteUser(ls, id) ==
    LET users == getUsers(ls)
        Keep(user) == user.id # id
        filteredUsers == SelectSeq(users, Keep)
    IN  IF Len(filteredUsers) = Len(users)
        THEN [ls |-> ls, ret |-> FALSE]
        ELSE [ls |-> setItem(ls, "users", JsonList(filteredUsers)), ret |-> TRUE]

(* Authentication *)

getCurrentUser(ls) == getItem(ls, "currentUser")

\* a setCurrentUser that does not write a user it is given
setCurrentUser_dropsUser(ls, user) ==
    IF user # Null THEN ls ELSE removeItem(ls, "currentUser")

setCurrentUser(ls, user) ==
    IF user # Null THEN setItem(ls, "currentUser", JsonEntity(user))
    ELSE removeItem(ls, "currentUser")

(* Terminals and tickets *)

getTerminals(ls) == IF NoItem(ls, "terminals") THEN <<>> ELSE getItem(ls, "terminals")

getTickets(ls) == IF NoItem(ls, "tickets") THEN <<>> ELSE getItem(ls, "tickets")

\* user.assignedTerminals?.includes(id): undefined, so falsy, when the field is missing
AssignedIncludes(user, id) ==
    "assignedTerminals" \in DOMAIN user /\ Includes(user.assignedTerminals, id)

getTerminalsByUser(ls, userId) ==
    LET user == getUserById(ls, userId)
        Mine(terminal) == AssignedIncludes(user, terminal.id)
    IN  IF user = Null \/ user.role # "Merchant" THEN getTerminals(ls)
        ELSE SelectSeq(getTerminals(ls), Mine)

getTicketsByUser(ls, userId) ==
    LET user == getUserById(ls, userId)
        userTerminals == IF "assignedTerminals" \in DOMAIN user THEN user.assignedTerminals ELSE <<>>
        Mine(ticket) == Includes(userTerminals, ticket.terminalId)
    IN  IF user = Null THEN <<>>
        ELSE IF user.role = "Merchant" THEN SelectSeq(getTickets(ls), Mine)
        ELSE getTickets(ls)

getTerminalById(ls, id) ==
    LET terminals == getTerminals(ls)
        i == FindIndex({k \in 1..Len(terminals) : terminals[k].id = id})
    IN  IF i = -1 THEN Null ELSE terminals[i]

updateTerminal(ls, id, updates, t) ==
    LET terminals == getTerminals(ls)
        index == FindIndex({i \in 1..Len(terminals) : terminals[i].id = id})
        merged == Spread(Spread(terminals[index], updates), [updatedAt |-> DateObj(t)])
    IN  IF index = -1
        THEN [ls |-> ls, ret |-> Null]
        ELSE [ls |-> setItem(ls, "terminals", JsonList([terminals EXCEPT ![index] = merged])),
              ret |-> merged]

\* the store has no getTicketById; the pages find a ticket in getTickets() by its id
getTicketById(ls, id) ==
    LET tickets == getTickets(ls)
        i == FindIndex({k \in 1..Len(tickets) : tickets[k].id = id})
    IN  IF i = -1 THEN Null ELSE tickets[i]

\* the id createTicket makes from Date.now() and Math.random()
FreshTicketId(n) == "TKT-new-" \o ToString(n)

createTicket(ls, ticketData, n, t) ==
    LET tickets == getTickets(ls)
        newTicket == Spread(Spread([id |-> FreshTicketId(n)], ticketData),
                            [createdAt |-> DateObj(t), updatedAt |-> DateObj(t)])
    IN  [ls |-> setItem(ls, "tickets", JsonList(Append(tickets, newTicket))), ret |-> newTicket]

\* an updateTicket that returns the merged ticket and does not save it
updateTicket_unsaved(ls, id, updates, t) ==
    LET tickets == getTickets(ls)
        index == FindIndex({i \in 1..Len(tickets) : tickets[i].id = id})
        merged == Spread(Spread(tickets[index], updates), [updatedAt |-> DateObj(t)])
    IN  IF index = -1 THEN [ls |-> ls, ret |-> Null] ELSE [ls |-> ls, ret |-> merged]

updateTicket(ls, id, updates, t) ==
    LET tickets == getTickets(ls)
        index == FindIndex({i \in 1..Len(tickets) : tickets[i].id = id})
        merged == Spread(Spread(tickets[index], updates), [updatedAt |-> DateObj(t)])
    IN  IF index = -1
        THEN [ls |-> ls, ret |-> Null]
        ELSE [ls |-> setItem(ls, "tickets", JsonList([tickets EXCEPT ![index] = merged])),
              ret |-> merged]

(* Alerts and metrics *)

getAlerts(ls) == IF NoItem(ls, "alerts") THEN <<>> ELSE getItem(ls, "alerts")

\* the id createAlert makes from Date.now() and Math.random()
FreshAlertId(n) == "alert-new-" \o ToString(n)

createAlert(ls, alertData, n, t) ==
    LET alerts == getAlerts(ls)
        newAlert == Spread(Spread([id |-> FreshAlertId(n)], alertData), [createdAt |-> DateObj(t)])
    IN  [ls |-> setItem(ls, "alerts", JsonList(Append(alerts, newAlert))), ret |-> newAlert]

getMetrics(ls) == IF NoItem(ls, "metrics") THEN <<>> ELSE getItem(ls, "metrics")

\* a clearAllData that spares the saved user
clearAllData_keepsSession(ls, t) ==
    initializeData([key \in DOMAIN ls |->
                       IF key = "currentUser" THEN ls[key] ELSE removeItem(ls, key)[key]], t)

\* clearAllData: every key is removed, then the fixtures are seeded again
clearAllData(ls, t) == initializeData([key \in DOMAIN ls |-> removeItem(ls, key)[key]], t)

----------------------------------------------------------------------------
(* AuthProvider: the reducer, the permission table and the session calls. *)

Action(type, payload) == [type |-> type, payload |-> payload]

authReducer(st, action) ==
    CASE action.type = "LOGIN_START" ->
            [st EXCEPT !.loading = TRUE, !.error = NoError]
      [] action.type = "LOGIN_SUCCESS" ->
            [st EXCEPT !.currentUser = action.payload, !.loading = FALSE, !.error = NoError]
      [] action.type = "LOGIN_FAILURE" ->
            [st EXCEPT !.currentUser = Null, !.loading = FALSE, !.error = action.payload]
      [] action.type = "LOGOUT" ->
            [st EXCEPT !.currentUser = Null, !.loading = FALSE, !.error = NoError]
      [] action.type = "UPDATE_USER" ->
            [st EXCEPT !.currentUser = action.payload]
      [] action.type = "CLEAR_ERROR" ->
            [st EXCEPT !.error = NoError]
      [] OTHER -> st

initialState == [currentUser |-> Null, loading |-> FALSE, error |-> NoError]

UserRoles == {"Administrator", "Support Agent", "Service Desk Manager", "Merchant"}

Permissions ==
    {"view_all_terminals", "manage_terminals", "view_all_tickets", "manage_tickets",
     "view_analytics", "generate_reports", "manage_users", "system_admin",
     "view_own_terminals", "view_own_tickets", "create_tickets", "view_own_analytics"}

\* a table that also grants manage_users to the Support Agent
ROLE_PERMISSIONS_agentManagesUsers(role) ==
    CASE role = "Administrator" ->
            {"view_all_terminals", "manage_terminals", "view_all_tickets", "manage_tickets",
             "view_analytics", "generate_reports", "manage_users", "system_admin"}
      [] role = "Service Desk Manager" ->
            {"view_all_terminals", "view_all_tickets", "manage_tickets",
             "view_analytics", "generate_reports", "manage_users"}
      [] role = "Support Agent" ->
            {"view_all_terminals", "manage_terminals", "view_all_tickets", "manage_tickets",
             "view_analytics", "generate_reports", "manage_users"}
      [] role = "Merchant" ->
            {"view_own_terminals", "view_own_tickets", "create_tickets", "view_own_analytics"}
      [] OTHER -> {}

\* ROLE_PERMISSIONS[role] || []
ROLE_PERMISSIONS(role) ==
    CASE role = "Administrator" ->
            {"view_all_terminals", "manage_terminals", "view_all_tickets", "manage_tickets",
             "view_analytics", "generate_reports", "manage_users", "system_admin"}
      [] role = "Service Desk Manager" ->
            {"view_all_terminals", "view_all_tickets", "manage_tickets",
             "view_analytics", "generate_reports", "manage_users"}
      [] role = "Support Agent" ->
            {"view_all_terminals", "manage_terminals", "view_all_tickets", "manage_tickets",
             "view_analytics", "generate_reports"}
      [] role = "Merchant" ->
            {"view_own_terminals", "view_own_tickets", "create_tickets", "view_own_analytics"}
      [] OTHER -> {}

hasPermission(st, permission) ==
    IF st.currentUser = Null THEN FALSE
    ELSE permission \in ROLE_PERMISSIONS(st.currentUser.role)

getAccessibleTerminals(ls, st) ==
    IF st.currentUser = Null THEN <<>>
    ELSE IF st.currentUser.role = "Merchant" THEN getTerminalsByUser(ls, st.currentUser.id)
    ELSE getTerminals(ls)

getAccessibleTickets(ls, st) ==
    IF st.currentUser = Null THEN <<>>
    ELSE getTicketsByUser(ls, st.currentUser.id)

\* a lock test that reads the counter, not the status
IsLocked_byCounter(user) == user.failedLoginAttempts >= 3

\* user.status === 'Locked'
IsLocked(user) == user.status = "Locked"

\* user.password !== password
PasswordMismatch(user, password) == user.password # password

\* a threshold that is off by one
ShouldLock_offByOne(updatedUser) == updatedUser # Null /\ updatedUser.failedLoginAttempts > 3

\* updatedUser && updatedUser.failedLoginAttempts >= 3
ShouldLock(updatedUser) == updatedUser # Null /\ updatedUser.failedLoginAttempts >= 3

\* a login that counts a wrong password twice
login_countsTwice(ls, st, username, password, t) ==
    LET started == authReducer(st, Action("LOGIN_START", Null))
        user == getUserByUsername(ls, username)
        Fail(store, message) ==
            [ls |-> store, state |-> authReducer(started, Action("LOGIN_FAILURE", message)),
             ret |-> FALSE]
        counted == updateUser(ls, user.id,
                              [failedLoginAttempts |-> user.failedLoginAttempts + 2], t)
        locked == updateUser(counted.ls, user.id, [status |-> "Locked"], t)
        fresh == updateUser(ls, user.id,
                            [lastLogin |-> DateObj(t), failedLoginAttempts |-> 0], t)
    IN  IF user = Null THEN Fail(ls, "User not found")
        ELSE IF IsLocked(user) THEN Fail(ls, "Account is locked. Contact administrator.")
        ELSE IF PasswordMismatch(user, password) THEN
            IF ShouldLock(counted.ret)
            THEN Fail(locked.ls, "Account locked due to multiple failed login attempts.")
            ELSE Fail(counted.ls, "Invalid password")
        ELSE IF fresh.ret # Null THEN
            [ls |-> setCurrentUser(fresh.ls, fresh.ret),
             state |-> authReducer(started, Action("LOGIN_SUCCESS", fresh.ret)),
             ret |-> TRUE]
        ELSE Fail(fresh.ls, "Login failed")

\* login: [ls |-> the storage after the call, state |-> the reducer state after
\* its dispatches, ret |-> the boolean the promise resolves to]
login(ls, st, username, password, t) ==
    LET started == authReducer(st, Action("LOGIN_START", Null))
        user == getUserByUsername(ls, username)
        Fail(store, message) ==
            [ls |-> store, state |-> authReducer(started, Action("LOGIN_FAILURE", message)),
             ret |-> FALSE]
        counted == updateUser(ls, user.id,
                              [failedLoginAttempts |-> user.failedLoginAttempts + 1], t)
        locked == updateUser(counted.ls, user.id, [status |-> "Locked"], t)
        fresh == updateUser(ls, user.id,
                            [lastLogin |-> DateObj(t), failedLoginAttempts |-> 0], t)
    IN  IF user = Null THEN Fail(ls, "User not found")
        ELSE IF IsLocked(user) THEN Fail(ls, "Account is locked. Contact administrator.")
        ELSE IF PasswordMismatch(user, password) THEN
            IF ShouldLock(counted.ret)
            THEN Fail(locked.ls, "Account locked due to multiple failed login attempts.")
            ELSE Fail(counted.ls, "Invalid password")
        ELSE IF fresh.ret # Null THEN
            [ls |-> setCurrentUser(fresh.ls, fresh.ret),
             state |-> authReducer(started, Action("LOGIN_SUCCESS", fresh.ret)),
             ret |-> TRUE]
        ELSE Fail(fresh.ls, "Login failed")

\* a logout that clears the reducer state and leaves the saved user
logout_keepsSavedUser(ls, st) ==
    [ls |-> ls, state |-> authReducer(st, Action("LOGOUT", Null))]

logout(ls, st) ==
    [ls |-> setCurrentUser(ls, Null), state |-> authReducer(st, Action("LOGOUT", Null))]

\* an updateCurrentUser that refreshes the reducer's user and not the saved one
updateCurrentUser_memoryOnly(ls, st, updates, t) ==
    LET updated == updateUser(ls, st.currentUser.id, updates, t)
    IN  IF st.currentUser = Null THEN [ls |-> ls, state |-> st]
        ELSE IF updated.ret # Null
        THEN [ls |-> updated.ls, state |-> authReducer(st, Action("UPDATE_USER", updated.ret))]
        ELSE [ls |-> updated.ls, state |-> st]

updateCurrentUser(ls, st, updates, t) ==
    LET updated == updateUser(ls, st.currentUser.id, updates, t)
    IN  IF st.currentUser = Null THEN [ls |-> ls, state |-> st]
        ELSE IF updated.ret # Null
        THEN [ls |-> setCurrentUser(updated.ls, updated.ret),
              state |-> authReducer(st, Action("UPDATE_USER", updated.ret))]
        ELSE [ls |-> updated.ls, state |-> st]

\* a mount effect that loads the stored record of the saved user's id
restoreSession_fromUsers(ls) ==
    LET savedUser == getCurrentUser(ls)
        fresh == IF savedUser = Null THEN Null ELSE getUserById(ls, savedUser.id)
    IN  IF fresh # Null THEN authReducer(initialState, Action("LOGIN_SUCCESS", fresh))
        ELSE initialState

\* a mount effect that loads nothing
restoreSession_loadsNothing(ls) == initialState

\* the provider's mount effect: a saved user is loaded without a login call
restoreSession(ls) ==
    LET savedUser == getCurrentUser(ls)
    IN  IF savedUser # Null THEN authReducer(initialState, Action("LOGIN_SUCCESS", savedUser))
        ELSE initialState

----------------------------------------------------------------------------
(* The user-management page: its form and its handlers.  The page's list   *)
(* of users is the stored collection, read when the page mounts.           *)
(* The page writes the store all tabs of the browser share, so it may be   *)
(* open in another tab than the one whose reducer state is `state`, with   *)
(* an administrator signed in there.                                       *)

\* validateForm: the form's errors are empty
validateForm(users, form, editingUser) ==
    LET Taken(field) ==
            \E i \in 1..Len(users) :
                /\ users[i][field] = form[field]
                /\ (editingUser = Null \/ users[i].id # editingUser.id)
    IN  /\ form.fullName # ""
        /\ form.username # "" /\ ~Taken("username")
        /\ form.email # "" /\ ~Taken("email")
        /\ editingUser = Null =>
              /\ form.password # "" /\ Len(form.password) >= 6
              /\ form.password = form.confirmPassword

\* handleEditUser: the form is filled from the user on the page
EditForm(user, role, status) ==
    [fullName |-> user.fullName, username |-> user.username, email |-> user.email,
     password |-> "", confirmPassword |-> "", role |-> role, status |-> status]

\* handleSubmitUser with a user being edited
submitEdit(ls, editingUser, form, t) ==
    IF ~validateForm(getUsers(ls), form, editingUser) THEN [ls |-> ls, ret |-> Null]
    ELSE updateUser(ls, editingUser.id,
                    [fullName |-> form.fullName, username |-> form.username,
                     email |-> form.email, role |-> form.role, status |-> form.status], t)

\* handleSubmitUser with no user being edited
submitCreate(ls, form, n, t) ==
    IF ~validateForm(getUsers(ls), form, Null) THEN [ls |-> ls, ret |-> Null]
    ELSE createUser(ls, [fullName |-> form.fullName, username |-> form.username,
                         email |-> form.email, password |-> form.password,
                         role |-> form.role, status |-> form.status,
                         failedLoginAttempts |-> 0, lastLogin |-> Null], n, t)

\* handleToggleUserStatus(userId, currentStatus)
toggleUserStatus(ls, userId, currentStatus, t) ==
    LET newStatus == IF currentStatus = "Active" THEN "Locked" ELSE "Active"
    IN  updateUser(ls, userId, [status |-> newStatus], t)

----------------------------------------------------------------------------
(* Inputs *)

LoginInputs ==
    { <<"merchant.mutasa", "merchant123">>, <<"merchant.mutasa", "wrong">>,
      <<"Merchant.Mutasa", "merchant123">>, <<"nobody", "wrong">> }

NewUserForm(username, password, role, status) ==
    [fullName |-> "New User", username |-> username, email |-> username \o "@stanbic.co.zw",
     password |-> password, confirmPassword |-> password, role |-> role, status |-> status]

NewUserForms ==
    { NewUserForm("new.user", "secret1", "Support Agent", "Active"),
      NewUserForm("merchant.mutasa", "secret1", "Support Agent", "Active"),
      NewUserForm("other.user", "abc", "Merchant", "Locked") }

\* the users the management handlers are applied to
ManagedIds == {"user-merchant-001"}

\* the field sets given to updateCurrentUser: some fields, and none
UpdateInputs == { [assignedTerminals |-> <<"T001", "T002">>], [fullName |-> "T. Mutasa"], <<>> }

\* two tabs of one browser: each has its own AuthProvider, all share localStorage
Tabs == {"A", "B"}

\* a tab in which no login call was made yet
IdleTab == [pc |-> "idle", st |-> initialState, args |-> <<>>, user |-> Null,
            users |-> <<>>, ret |-> FALSE]

\* the terminals the page restarts
RestartIds == {"T001", "T003"}

\* the terminals page as it mounts: no restart timer pending, no terminal selected
NoPage == [timers |-> [id \in RestartIds |-> 0], selectedTerminals |-> {}]

----------------------------------------------------------------------------
(* The state machine *)

\* the step just made was no session call
OtherCall == Call("other", <<>>, TRUE, <<>>)

NoRun == [id |-> "", n |-> 0, ret |-> TRUE]

\* a call that is not a wrong-password login ends the run when it changes the run's user
RunAfter(ls) ==
    IF run.n > 0 /\ getUserById(ls, run.id) # getUserById(localStorage, run.id)
    THEN NoRun ELSE run

\* a wrong-password login on user: the run starts at an Active user with no
\* failed attempts, and goes on while the calls are consecutive on that user
RunAfterWrong(user, ret) ==
    IF run.n \in 1..2 /\ run.id = user.id THEN [id |-> user.id, n |-> run.n + 1, ret |-> ret]
    ELSE IF user.failedLoginAttempts = 0 /\ user.status = "Active"
    THEN [id |-> user.id, n |-> 1, ret |-> ret]
    ELSE NoRun

\* the module is loaded (the store's constructor seeds it), then the provider mounts
Init ==
    /\ now = 1
    /\ quotaExceeded = FALSE
    /\ localStorage = initializeData([key \in STORAGE_KEYS |-> Null], now)
    /\ state = restoreSession(localStorage)
    /\ created = 0
    /\ last = OtherCall
    /\ run = NoRun
    /\ attempts = [id \in ManagedIds |-> <<>>]
    /\ tabs = [t \in Tabs |-> IdleTab]
    /\ page = NoPage

Tick ==
    /\ now < MaxClock
    /\ now' = now + 1
    /\ last' = OtherCall
    /\ UNCHANGED <<localStorage, quotaExceeded, state, created, run, attempts, tabs, page>>

\* what a login call on a user that exists was: a wrong password (whether login compared it
\* or refused before comparing), the right password refused on a locked account, or a success
LoginOutcome(user, password) ==
    IF PasswordMismatch(user, password) THEN "wrong"
    ELSE IF IsLocked(user) THEN "locked"
    ELSE "ok"

\* the three most recent entries of a sequence
Recent(s) == IF Len(s) <= 3 THEN s ELSE SubSeq(s, Len(s) - 2, Len(s))

\* login(username, password); recorded says whether the call enters the history of attempts
LoginCall(username, password, recorded) ==
    LET user == getUserByUsername(localStorage, username)
        r == login(localStorage, state, username, password, now)
        wrong == user # Null /\ user.password # password
    IN  /\ wrong /\ ~IsLocked(user) => user.failedLoginAttempts < MaxAttempts
        /\ localStorage' = r.ls
        /\ state' = r.state
        /\ last' = Call("login", <<username, password>>, r.ret,
                        IF user = Null THEN <<>> ELSE <<user.failedLoginAttempts, user.status>>)
        /\ run' = IF wrong THEN RunAfterWrong(user, r.ret) ELSE RunAfter(r.ls)
        /\ attempts' = IF recorded /\ user # Null /\ user.id \in DOMAIN attempts
                        THEN [attempts EXCEPT ![user.id] = Recent(Append(@, LoginOutcome(user, password)))]
                        ELSE attempts
        /\ UNCHANGED <<quotaExceeded, now, created, tabs, page>>

Login(username, password) == LoginCall(username, password, FALSE)

LoginAttempt(username, password) == LoginCall(username, password, TRUE)

Logout ==
    LET r == logout(localStorage, state)
    IN  /\ localStorage' = r.ls
        /\ state' = r.state
        /\ last' = Call("logout", <<>>, TRUE, <<state.currentUser # Null>>)
        /\ UNCHANGED <<quotaExceeded, now, created, run, attempts, tabs, page>>

UpdateCurrentUser(updates) ==
    LET r == updateCurrentUser(localStorage, state, updates, now)
    IN  /\ localStorage' = r.ls
        /\ state' = r.state
        /\ last' = Call("updateCurrentUser", <<updates>>, TRUE,
                        <<state.currentUser # Null,
                          state.currentUser # Null
                              /\ getUserById(localStorage, state.currentUser.id) # Null>>)
        /\ run' = RunAfter(r.ls)
        /\ UNCHANGED <<quotaExceeded, now, created, attempts, tabs, page>>

\* the tab is loaded again: the module is loaded and the provider mounts; the page's
\* component state and its pending timers are gone
Reload ==
    /\ localStorage' = initializeData(localStorage, now)
    /\ state' = restoreSession(localStorage')
    /\ last' = Call("reload", <<>>, TRUE, <<>>)
    /\ page' = NoPage
    /\ UNCHANGED <<quotaExceeded, now, created, run, attempts, tabs>>

HandleSubmitUserEdit(id, role, status) ==
    LET editingUser == getUserById(localStorage, id)
        r == submitEdit(localStorage, editingUser, EditForm(editingUser, role, status), now)
    IN  /\ editingUser # Null
        /\ localStorage' = r.ls
        /\ last' = OtherCall
        /\ run' = RunAfter(r.ls)
        /\ UNCHANGED <<quotaExceeded, state, now, created, attempts, tabs, page>>

HandleSubmitUserCreate(form) ==
    LET r == submitCreate(localStorage, form, created + 1, now)
    IN  /\ created < MaxCreated
        /\ localStorage' = r.ls
        /\ created' = IF r.ret # Null THEN created + 1 ELSE created
        /\ last' = OtherCall
        /\ UNCHANGED <<quotaExceeded, state, now, run, attempts, tabs, page>>

HandleToggleUserStatus(id) ==
    LET user == getUserById(localStorage, id)
        r == toggleUserStatus(localStorage, id, user.status, now)
    IN  /\ user # Null
        /\ localStorage' = r.ls
        /\ last' = OtherCall
        /\ run' = RunAfter(r.ls)
        /\ UNCHANGED <<quotaExceeded, state, now, created, attempts, tabs, page>>

ConfirmDeleteUser(id) ==
    LET r == deleteUser(localStorage, id)
    IN  /\ localStorage' = r.ls
        /\ last' = OtherCall
        /\ run' = RunAfter(r.ls)
        /\ UNCHANGED <<quotaExceeded, state, now, created, attempts, tabs, page>>

Next ==
    \/ Tick
    \/ \E c \in LoginInputs : Login(c[1], c[2])
    \/ Logout
    \/ Reload
    \/ \E id \in ManagedIds, role \in UserRoles, status \in {"Active", "Locked"} :
          HandleSubmitUserEdit(id, role, status)
    \/ \E id \in ManagedIds : HandleToggleUserStatus(id)
    \/ \E id \in ManagedIds : ConfirmDeleteUser(id)

Spec == Init /\ [][Next]_vars

----------------------------------------------------------------------------
(* The record store called directly: create, update and delete on its      *)
(* collections, clearAllData, and the page load that constructs the store. *)

\* the collections with an update method, and the ids and field sets it is given:
\* a stored id and one no entity has; some fields, and none
UpdateKeys == {"users", "terminals", "tickets"}

UpdateIds(key) ==
    CASE key = "users" -> {"user-merchant-001", "user-missing"}
      [] key = "terminals" -> {"T003", "T-missing"}
      [] key = "tickets" -> {"TKT-2025-001", "TKT-missing"}

UpdateFields(key, t) ==
    CASE key = "users" -> {<<>>, [status |-> "Locked"]}
      [] key = "terminals" -> {<<>>, [status |-> "Online", lastSeen |-> DateObj(t)]}
      [] key = "tickets" -> {<<>>, [assignedTo |-> "user-admin-001", status |-> "In Progress"]}

\* the ids deleteUser is given: every fixture user, a created one, and one no user has
DeleteIds ==
    {"user-admin-001", "user-support-001", "user-manager-001", "user-merchant-001",
     FreshUserId(1), "user-missing"}

NewUserData ==
    [fullName |-> "New User", username |-> "new.user", email |-> "new.user@stanbic.co.zw",
     password |-> "secret1", role |-> "Support Agent", status |-> "Active",
     failedLoginAttempts |-> 0, lastLogin |-> Null]

NewTicketData ==
    [terminalId |-> "T003", priority |-> "Medium", status |-> "Open",
     reportedBy |-> "user-admin-001", assignedTo |-> Null, slaBreach |-> FALSE]

NewAlertData ==
    [type |-> "Terminal Down", severity |-> "High", terminalId |-> "T003", acknowledged |-> FALSE]

\* list: the collection under a key
List(ls, key) ==
    CASE key = "users" -> getUsers(ls)
      [] key = "terminals" -> getTerminals(ls)
      [] key = "tickets" -> getTickets(ls)
      [] key = "alerts" -> getAlerts(ls)

\* getById on the collection under a key
GetById(ls, key, id) ==
    CASE key = "users" -> getUserById(ls, id)
      [] key = "terminals" -> getTerminalById(ls, id)
      [] key = "tickets" -> getTicketById(ls, id)

\* update on the collection under a key
Update(ls, key, id, updates, t) ==
    CASE key = "users" -> updateUser(ls, id, updates, t)
      [] key = "terminals" -> updateTerminal(ls, id, updates, t)
      [] key = "tickets" -> updateTicket(ls, id, updates, t)

\* create on the collection under a key, the n-th create of the run
Create(ls, key, n, t) ==
    CASE key = "users" -> createUser(ls, NewUserData, n, t)
      [] key = "tickets" -> createTicket(ls, NewTicketData, n, t)
      [] key = "alerts" -> createAlert(ls, NewAlertData, n, t)

CreateKeys == {"users", "tickets", "alerts"}

\* a store call: what it found is, for an update, how many times in a row this
\* same update has now been made (1 or 2) and the collection before the first
StoreCreate(key) ==
    LET r == Create(localStorage, key, created + 1, now)
    IN  /\ created < MaxCreated
        /\ localStorage' = r.ls
        /\ created' = created + 1
        /\ last' = Call("create", <<key>>, r.ret, <<>>)
        /\ UNCHANGED <<quotaExceeded, state, now, run, attempts, tabs, page>>

StoreUpdate(key, id, updates) ==
    LET r == Update(localStorage, key, id, updates, now)
        again == last.op = "update" /\ last.args = <<key, id, updates>>
    IN  /\ localStorage' = r.ls
        /\ last' = Call("update", <<key, id, updates>>, r.ret,
                        IF again THEN <<2, last.found[2]>> ELSE <<1, List(localStorage, key)>>)
        /\ UNCHANGED <<quotaExceeded, state, now, created, run, attempts, tabs, page>>

StoreDeleteUser(id) ==
    LET r == deleteUser(localStorage, id)
    IN  /\ localStorage' = r.ls
        /\ last' = Call("deleteUser", <<id>>, r.ret, <<>>)
        /\ UNCHANGED <<quotaExceeded, state, now, created, run, attempts, tabs, page>>

\* setCurrentUser called with a stored user, and with null
StoreSetCurrentUser(id) ==
    LET user == getUserById(localStorage, id)
    IN  /\ localStorage' = setCurrentUser(localStorage, user)
        /\ last' = Call("setCurrentUser", <<id>>, Null, <<>>)
        /\ UNCHANGED <<quotaExceeded, state, now, created, run, attempts, tabs, page>>

\* clearAllData; what it found is whether a user was saved and how many users were stored
ClearAllData ==
    /\ localStorage' = clearAllData(localStorage, now)
    /\ last' = Call("clearAllData", <<>>, Null,
                    <<getCurrentUser(localStorage) # Null, Len(getUsers(localStorage))>>)
    /\ UNCHANGED <<quotaExceeded, state, now, created, run, attempts, tabs, page>>

\* update on each collection, as time passes
NextUpdate ==
    \/ Tick
    \/ \E key \in UpdateKeys : \E id \in UpdateIds(key), updates \in UpdateFields(key, now) :
          StoreUpdate(key, id, updates)

SpecUpdate == Init /\ [][NextUpdate]_vars

\* entities are created, and users edited and deleted
NextStore ==
    \/ Tick
    \/ \E key \in CreateKeys : StoreCreate(key)
    \/ \E id \in UpdateIds("users") : StoreUpdate("users", id, [status |-> "Locked"])
    \/ \E id \in DeleteIds : StoreDeleteUser(id)

SpecStore == Init /\ [][NextStore]_vars

\* the field sets Partial<User> and Partial<SupportTicket> allow: some that leave the id
\* alone, and some that name it
IdKeys == {"users", "tickets"}

IdFields(key) ==
    CASE key = "users" -> {[status |-> "Locked"], [id |-> "user-admin-001"]}
      [] key = "tickets" -> {[status |-> "In Progress"], [id |-> FreshTicketId(1)]}

\* users and tickets are created, updated with such field sets, and users deleted
NextIds ==
    \/ \E key \in IdKeys : StoreCreate(key)
    \/ \E key \in IdKeys : \E id \in UpdateIds(key), updates \in IdFields(key) :
          StoreUpdate(key, id, updates)
    \/ \E id \in UpdateIds("users") : StoreDeleteUser(id)

SpecIds == Init /\ [][NextIds]_vars

\* the ids deleteUser is given before a reset: the fixture users
FixtureUserIds ==
    {"user-admin-001", "user-support-001", "user-manager-001", "user-merchant-001"}

\* the store is changed (a user saved, users deleted, a ticket created, a
\* terminal edited), reset, and constructed again by a page load
NextReset ==
    \/ Tick
    \/ Reload
    \/ ClearAllData
    \/ StoreSetCurrentUser("user-merchant-001")
    \/ \E id \in FixtureUserIds : StoreDeleteUser(id)
    \/ StoreCreate("tickets")
    \/ StoreUpdate("terminals", "T003", [status |-> "Online"])

SpecReset == Init /\ [][NextReset]_vars

\* the store called while the browser's storage is, at times, full
StorageFills ==
    /\ ~quotaExceeded
    /\ quotaExceeded' = TRUE
    /\ last' = OtherCall
    /\ UNCHANGED <<localStorage, state, now, created, run, attempts, tabs, page>>

StorageFrees ==
    /\ quotaExceeded
    /\ quotaExceeded' = FALSE
    /\ last' = OtherCall
    /\ UNCHANGED <<localStorage, state, now, created, run, attempts, tabs, page>>

QuotaIds == {"user-merchant-001", "user-missing"}

NextQuota ==
    \/ Tick
    \/ StorageFills
    \/ StorageFrees
    \/ \E key \in CreateKeys : StoreCreate(key)
    \/ \E id \in QuotaIds : StoreUpdate("users", id, [status |-> "Locked"])
    \/ \E id \in QuotaIds : StoreDeleteUser(id)
    \/ \E id \in QuotaIds : StoreSetCurrentUser(id)

SpecQuota == Init /\ [][NextQuota]_vars

----------------------------------------------------------------------------
(* The tickets page: its handlers, which a signed-in user reaches.         *)

TicketStatuses == {"Open", "In Progress", "Resolved", "Closed", "Scheduled"}

\* the hours handleCreateTicket gives a new ticket before its SLA target
SlaHours == 4

\* handleAssignTicket(ticketId, userId)
assignTicket(ls, ticketId, userId, t) ==
    updateTicket(ls, ticketId, [assignedTo |-> userId, status |-> "In Progress"], t)

\* handleUpdateStatus(ticketId, newStatus); resolutionTime, the minutes since
\* the ticket was created, is written when the page has the ticket
updateStatus(ls, ticketId, newStatus, t) ==
    LET ticket == getTicketById(ls, ticketId)
        updates == IF newStatus = "Resolved"
                   THEN IF ticket # Null
                        THEN [status |-> newStatus, resolvedAt |-> DateObj(t),
                              resolutionTime |-> t - ticket.createdAt.t]
                        ELSE [status |-> newStatus, resolvedAt |-> DateObj(t)]
                   ELSE [status |-> newStatus]
    IN  updateTicket(ls, ticketId, updates, t)

\* handleCreateTicket(ticketData), the current user reporting
newTicket(ls, ticketData, currentUser, n, t) ==
    createTicket(ls, Spread(ticketData,
                            [reportedBy |-> currentUser.id, assignedTo |-> Null,
                             slaTarget |-> DateObj(t + SlaHours), slaBreach |-> FALSE,
                             slaBreachDuration |-> 0]), n, t)

\* what the create form gives: an open ticket on a terminal
TicketForm == [terminalId |-> "T003", priority |-> "Medium", status |-> "Open"]

\* the tickets the handlers are applied to, and the statuses and the agent they are given
HandledTicketIds == {"TKT-2025-001", FreshTicketId(1)}

HandledStatuses == {"Open", "Resolved"}

SupportAgentId == "user-support-001"

HandleCreateTicket ==
    LET r == newTicket(localStorage, TicketForm, state.currentUser, created + 1, now)
    IN  /\ state.currentUser # Null
        /\ created < MaxCreated
        /\ localStorage' = r.ls
        /\ created' = created + 1
        /\ last' = Call("handleCreateTicket", <<>>, r.ret, <<>>)
        /\ UNCHANGED <<quotaExceeded, state, now, run, attempts, tabs, page>>

HandleAssignTicket(ticketId, userId) ==
    LET r == assignTicket(localStorage, ticketId, userId, now)
    IN  /\ state.currentUser # Null
        /\ localStorage' = r.ls
        /\ last' = Call("handleAssignTicket", <<ticketId, userId>>, r.ret, <<>>)
        /\ UNCHANGED <<quotaExceeded, state, now, created, run, attempts, tabs, page>>

HandleUpdateStatus(ticketId, newStatus) ==
    LET r == updateStatus(localStorage, ticketId, newStatus, now)
    IN  /\ state.currentUser # Null
        /\ localStorage' = r.ls
        /\ last' = Call("handleUpdateStatus", <<ticketId, newStatus>>, r.ret, <<>>)
        /\ UNCHANGED <<quotaExceeded, state, now, created, run, attempts, tabs, page>>

NextTickets ==
    \/ Tick
    \/ Login("merchant.mutasa", "merchant123")
    \/ HandleCreateTicket
    \/ \E ticketId \in HandledTicketIds : HandleAssignTicket(ticketId, SupportAgentId)
    \/ \E ticketId \in HandledTicketIds, newStatus \in HandledStatuses :
          HandleUpdateStatus(ticketId, newStatus)

SpecTickets == Init /\ [][NextTickets]_vars

\* the session with its own profile update: a user signs in and out, updates
\* the current user, and the stored record may be deleted meanwhile
NextProfile ==
    \/ Tick
    \/ \E c \in LoginInputs : Login(c[1], c[2])
    \/ Logout
    \/ Reload
    \/ \E updates \in UpdateInputs : UpdateCurrentUser(updates)
    \/ \E id \in ManagedIds : ConfirmDeleteUser(id)

SpecProfile == Init /\ [][NextProfile]_vars

\* logins on an account the administrator locks and unlocks, each login call on the account
\* entered in the history of its attempts
NextLockout ==
    \/ Tick
    \/ \E c \in LoginInputs : LoginAttempt(c[1], c[2])
    \/ Logout
    \/ \E id \in ManagedIds : HandleToggleUserStatus(id)

SpecLockout == Init /\ [][NextLockout]_vars

----------------------------------------------------------------------------
(* The terminals page: the restart of one terminal, whose second half runs  *)
(* from a timer, and the restart of the selected terminals.                 *)

\* the first half of confirmRestart, and what handleBulkRestart does to each terminal
restartBegins(ls, terminalId, t) ==
    updateTerminal(ls, terminalId, [status |-> "Maintenance", lastSeen |-> DateObj(t)], t)

\* a timer callback that brings the terminal back only when it is still in Maintenance
restartEnds_ifStillDown(ls, terminalId, t) ==
    IF getTerminalById(ls, terminalId) # Null
          /\ getTerminalById(ls, terminalId).status = "Maintenance"
    THEN updateTerminal(ls, terminalId, [status |-> "Online", lastSeen |-> DateObj(t)], t)
    ELSE [ls |-> ls, ret |-> Null]

\* the callback confirmRestart hands to setTimeout
restartEnds(ls, terminalId, t) ==
    updateTerminal(ls, terminalId, [status |-> "Online", lastSeen |-> DateObj(t)], t)

\* a bulk restart that stops after the first selected terminal
bulkRestart_firstOnly(ls, ids, t) ==
    IF ids = {} THEN ls ELSE restartBegins(ls, CHOOSE x \in ids : TRUE, t).ls

RECURSIVE bulkRestart(_, _, _)
\* selectedTerminals.forEach(terminalId => updateTerminal(terminalId, ...))
bulkRestart(ls, ids, t) ==
    IF ids = {} THEN ls
    ELSE LET id == CHOOSE x \in ids : TRUE
         IN  bulkRestart(restartBegins(ls, id, t).ls, ids \ {id}, t)

\* confirmRestart with terminalToRestart = terminalId; the page shows the restart
\* buttons to a user with manage_terminals
ConfirmRestart(terminalId) ==
    LET r == restartBegins(localStorage, terminalId, now)
    IN  /\ hasPermission(state, "manage_terminals")
        /\ page.timers[terminalId] < MaxPending
        /\ localStorage' = r.ls
        /\ page' = IF r.ret # Null
                    THEN [page EXCEPT !.timers[terminalId] = @ + 1]
                    ELSE page
        /\ last' = Call("confirmRestart", <<terminalId>>, r.ret,
                        <<getTerminalById(localStorage, terminalId).status>>)
        /\ UNCHANGED <<quotaExceeded, state, now, created, run, attempts, tabs>>

\* a restart timer of terminalId fires
RestartTimerFires(terminalId) ==
    LET r == restartEnds(localStorage, terminalId, now)
    IN  /\ page.timers[terminalId] > 0
        /\ localStorage' = r.ls
        /\ page' = [page EXCEPT !.timers[terminalId] = @ - 1]
        /\ last' = Call("restartTimer", <<terminalId>>, r.ret,
                        <<getTerminalById(localStorage, terminalId).status>>)
        /\ UNCHANGED <<quotaExceeded, state, now, created, run, attempts, tabs>>

ToggleTerminalSelection(terminalId) ==
    /\ state.currentUser # Null
    /\ page' = [page EXCEPT !.selectedTerminals =
                    IF terminalId \in @ THEN @ \ {terminalId} ELSE @ \cup {terminalId}]
    /\ last' = OtherCall
    /\ UNCHANGED <<localStorage, quotaExceeded, state, now, created, run, attempts, tabs>>

\* handleBulkRestart; what it found is the selection it was called with
HandleBulkRestart ==
    /\ hasPermission(state, "manage_terminals")
    /\ page.selectedTerminals # {}
    /\ localStorage' = bulkRestart(localStorage, page.selectedTerminals, now)
    /\ page' = [page EXCEPT !.selectedTerminals = {}]
    /\ last' = Call("handleBulkRestart", <<>>, Null, <<page.selectedTerminals>>)
    /\ UNCHANGED <<quotaExceeded, state, now, created, run, attempts, tabs>>

\* the status a terminal reports between restarts
TerminalGoes(terminalId, status) ==
    /\ localStorage' = updateTerminal(localStorage, terminalId,
                                      [status |-> status, lastSeen |-> DateObj(now)], now).ls
    /\ last' = OtherCall
    /\ UNCHANGED <<quotaExceeded, state, now, created, run, attempts, tabs, page>>

\* one terminal is restarted by a signed-in user, who may sign out before the timer fires
NextRestart ==
    \/ Tick
    \/ Login("admin.mukamuri", "admin123")
    \/ Logout
    \/ ConfirmRestart("T001")
    \/ RestartTimerFires("T001")
    \/ \E status \in {"Offline", "Error"} : TerminalGoes("T001", status)

SpecRestart == Init /\ [][NextRestart]_vars

\* a timer that was set fires: the page is not loaded again in this specification
SpecRestartFair == SpecRestart /\ WF_vars(RestartTimerFires("T001"))

\* terminals are selected and restarted together, beside single restarts
NextBulk ==
    \/ Tick
    \/ Login("admin.mukamuri", "admin123")
    \/ Logout
    \/ Reload
    \/ \E id \in RestartIds : ConfirmRestart(id)
    \/ \E id \in RestartIds : RestartTimerFires(id)
    \/ \E id \in RestartIds : ToggleTerminalSelection(id)
    \/ HandleBulkRestart

SpecBulk == Init /\ [][NextBulk]_vars

----------------------------------------------------------------------------
(* login in two tabs, one store access at a time.  Inside a tab the body   *)
(* of login runs to its end without a break; the other tab runs at the     *)
(* same time, and each getItem and each setItem on the shared storage is   *)
(* one step.  updateUser is its read (getUsers) and then its write.        *)

TabInputs == { <<"merchant.mutasa", "merchant123">>, <<"merchant.mutasa", "wrong">>,
               <<"nobody", "wrong">> }

\* the pcs of a login call that is in flight
InFlight == {"find", "countRead", "countWrite", "lockRead", "lockWrite",
             "resetRead", "resetWrite", "save"}

\* an updateUser that reads the users again when it writes
updateUserWrite_readsAgain(ls, users, id, updates, t) == updateUser(ls, id, updates, t)

\* updateUser after its getUsers(): the users it read are changed at the index of id
\* and written back whole
updateUserWrite(ls, users, id, updates, t) ==
    LET index == FindIndex({i \in 1..Len(users) : users[i].id = id})
        merged == Spread(Spread(users[index], updates), [updatedAt |-> DateObj(t)])
    IN  IF index = -1
        THEN [ls |-> ls, ret |-> Null]
        ELSE [ls |-> setItem(ls, "users", JsonList([users EXCEPT ![index] = merged])),
              ret |-> merged]

\* a catch block that dispatches nothing
loginCaught_silent(st) == st

\* the catch block of login: LOGIN_FAILURE with the generic message
loginCaught(st) == authReducer(st, Action("LOGIN_FAILURE", "Login failed. Please try again."))

\* the call in tab t returns ret with the reducer state st; its locals are gone
TabReturns(t, st, ret) ==
    [tabs EXCEPT ![t] = [pc |-> "returned", st |-> st, args |-> @.args, user |-> Null,
                         users |-> <<>>, ret |-> ret]]

\* the call returns false after dispatching LOGIN_FAILURE with message
TabFails(t, message) ==
    TabReturns(t, authReducer(tabs[t].st, Action("LOGIN_FAILURE", message)), FALSE)

TabGoes(t, pc) == [tabs EXCEPT ![t].pc = pc]

\* login is called in tab t: LOGIN_START is dispatched
LoginStart(t, username, password) ==
    LET user == getUserByUsername(localStorage, username)
    IN  /\ tabs[t].pc \in {"idle", "returned"}
        /\ (user # Null /\ user.password # password) =>
              /\ user.failedLoginAttempts < MaxAttempts
              /\ \A o \in Tabs : tabs[o].user # Null
                                      => tabs[o].user.failedLoginAttempts < MaxAttempts
        /\ tabs' = [tabs EXCEPT ![t] = [pc |-> "find",
                                         st |-> authReducer(@.st, Action("LOGIN_START", Null)),
                                         args |-> <<username, password>>, user |-> Null,
                                         users |-> <<>>, ret |-> FALSE]]
        /\ UNCHANGED <<localStorage, quotaExceeded, state, now, created, last, run, attempts, page>>

\* getUserByUsername, and the tests on the user found; the call enters the history of
\* the attempts on that user
LoginFind(t) ==
    LET user == getUserByUsername(localStorage, tabs[t].args[1])
    IN  /\ tabs[t].pc = "find"
        /\ tabs' = IF user = Null THEN TabFails(t, "User not found")
                    ELSE IF IsLocked(user)
                    THEN TabFails(t, "Account is locked. Contact administrator.")
                    ELSE [tabs EXCEPT ![t].user = user,
                                      ![t].pc = IF PasswordMismatch(user, tabs[t].args[2])
                                                THEN "countRead" ELSE "resetRead"]
        /\ attempts' = IF user # Null /\ user.id \in DOMAIN attempts
                        THEN [attempts EXCEPT ![user.id] =
                                 Recent(Append(@, LoginOutcome(user, tabs[t].args[2])))]
                        ELSE attempts
        /\ UNCHANGED <<localStorage, quotaExceeded, state, now, created, last, run, page>>

\* the getUsers() of one of login's three updateUser calls
UpdateRead(t) ==
    /\ tabs[t].pc \in {"countRead", "lockRead", "resetRead"}
    /\ tabs' = [tabs EXCEPT ![t].users = getUsers(localStorage),
                             ![t].pc = CASE tabs[t].pc = "countRead" -> "countWrite"
                                         [] tabs[t].pc = "lockRead" -> "lockWrite"
                                         [] tabs[t].pc = "resetRead" -> "resetWrite"]
    /\ UNCHANGED <<localStorage, quotaExceeded, state, now, created, last, run, attempts, page>>

\* updateUser(user.id, { failedLoginAttempts: user.failedLoginAttempts + 1 }) writes
CountWrite(t) ==
    LET user == tabs[t].user
        w == updateUserWrite(localStorage, tabs[t].users, user.id,
                             [failedLoginAttempts |-> user.failedLoginAttempts + 1], now)
    IN  /\ tabs[t].pc = "countWrite"
        /\ localStorage' = w.ls
        /\ tabs' = IF ShouldLock(w.ret) THEN TabGoes(t, "lockRead")
                    ELSE TabFails(t, "Invalid password")
        /\ UNCHANGED <<quotaExceeded, state, now, created, last, run, attempts, page>>

\* updateUser(user.id, { status: 'Locked' }) writes
LockWrite(t) ==
    LET w == updateUserWrite(localStorage, tabs[t].users, tabs[t].user.id,
                             [status |-> "Locked"], now)
    IN  /\ tabs[t].pc = "lockWrite"
        /\ localStorage' = w.ls
        /\ tabs' = TabFails(t, "Account locked due to multiple failed login attempts.")
        /\ UNCHANGED <<quotaExceeded, state, now, created, last, run, attempts, page>>

\* updateUser(user.id, { lastLogin: new Date(), failedLoginAttempts: 0 }) writes
ResetWrite(t) ==
    LET w == updateUserWrite(localStorage, tabs[t].users, tabs[t].user.id,
                             [lastLogin |-> DateObj(now), failedLoginAttempts |-> 0], now)
    IN  /\ tabs[t].pc = "resetWrite"
        /\ localStorage' = w.ls
        /\ tabs' = IF w.ret # Null
                    THEN [tabs EXCEPT ![t].user = w.ret, ![t].pc = "save"]
                    ELSE TabFails(t, "Login failed")
        /\ UNCHANGED <<quotaExceeded, state, now, created, last, run, attempts, page>>

\* setCurrentUser(updatedUser), LOGIN_SUCCESS, return true
SaveSession(t) ==
    /\ tabs[t].pc = "save"
    /\ localStorage' = setCurrentUser(localStorage, tabs[t].user)
    /\ tabs' = TabReturns(t, authReducer(tabs[t].st, Action("LOGIN_SUCCESS", tabs[t].user)), TRUE)
    /\ UNCHANGED <<quotaExceeded, state, now, created, last, run, attempts, page>>

\* the store call the login is at throws: the catch block runs
LoginCatch(t) ==
    /\ tabs[t].pc \in InFlight
    /\ tabs' = TabReturns(t, loginCaught(tabs[t].st), FALSE)
    /\ UNCHANGED <<localStorage, quotaExceeded, state, now, created, last, run, attempts, page>>

\* the rest of a login call that is in flight in tab t
TabStep(t) ==
    \/ LoginFind(t)
    \/ UpdateRead(t)
    \/ CountWrite(t)
    \/ LockWrite(t)
    \/ ResetWrite(t)
    \/ SaveSession(t)
    \/ LoginCatch(t)

\* the logins of two tabs that race on one account
RaceInputs == { <<"merchant.mutasa", "merchant123">>, <<"merchant.mutasa", "wrong">> }

NextTabs ==
    \/ \E t \in Tabs, c \in RaceInputs : LoginStart(t, c[1], c[2])
    \/ \E t \in Tabs : LoginFind(t)
    \/ \E t \in Tabs : UpdateRead(t)
    \/ \E t \in Tabs : CountWrite(t)
    \/ \E t \in Tabs : LockWrite(t)
    \/ \E t \in Tabs : ResetWrite(t)
    \/ \E t \in Tabs : SaveSession(t)

SpecTabs == Init /\ [][NextTabs]_vars

\* login calls in one tab, on an account the administrator locks and unlocks
NextLoginSteps ==
    \/ \E c \in TabInputs : LoginStart("A", c[1], c[2])
    \/ LoginFind("A")
    \/ UpdateRead("A")
    \/ CountWrite("A")
    \/ LockWrite("A")
    \/ ResetWrite("A")
    \/ SaveSession("A")
    \/ LoginCatch("A")
    \/ \E id \in ManagedIds : HandleToggleUserStatus(id)

SpecLoginSteps == Init /\ [][NextLoginSteps]_vars

\* the body of login has no await: once called it runs to its return
SpecLoginStepsFair == SpecLoginSteps /\ WF_vars(TabStep("A"))

----------------------------------------------------------------------------
(* Routes and navigation: what a visitor of /user-management gets, and      *)
(* whether the sidebar shows the User Management entry.                     *)

\* a route guard that admits the Administrator only
UserManagementRoles_adminOnly == {"Administrator"}

\* allowedRoles of the /user-management route, and roles of the navigation entry
UserManagementRoles == {"Administrator", "Service Desk Manager"}

\* RoleBasedRoute: a redirect to /login, the Access Denied card, or the children
RoleBasedRoute(st, allowedRoles) ==
    IF st.currentUser = Null THEN "/login"
    ELSE IF st.currentUser.role \notin allowedRoles THEN "Access Denied"
    ELSE "children"

\* PrivateRoute around its children: the spinner, the children, or a redirect to /login
PrivateRoute(st, children) ==
    IF st.loading THEN "LoadingSpinner"
    ELSE IF st.currentUser # Null THEN children
    ELSE "/login"

\* the element of the /user-management route
UserManagementRoute(st) == PrivateRoute(st, RoleBasedRoute(st, UserManagementRoles))

\* filteredNavigation keeps the User Management entry
ShowsUserManagement(st) ==
    st.currentUser # Null /\ st.currentUser.role \in UserManagementRoles

----------------------------------------------------------------------------
(* Claims *)

StoredUser(ls, id) == getUserById(ls, id)

\* C1: for a stored user with failedLoginAttempts = 0 and status Active, three
\* consecutive login calls with that username and a wrong password, with no
\* other operation on that user in between, leave the stored user Locked with
\* failedLoginAttempts = 3, and the third call returns false.
C1_ThreeWrongPasswordsLock ==
    run.n = 3 =>
        LET user == StoredUser(localStorage, run.id)
        IN  /\ user # Null
            /\ user.status = "Locked"
            /\ user.failedLoginAttempts = 3
            /\ run.ret = FALSE

C1_Witness == run.n = 3 /\ last.op = "login"

\* C2: login on a user whose stored status is Locked returns false for every
\* password, the correct one too, and leaves the users collection and the
\* persisted session slot unchanged.
C2_LockedLoginFails ==
    [][\A c \in LoginInputs :
          LET user == getUserByUsername(localStorage, c[1])
          IN  (user # Null /\ user.status = "Locked" /\ Login(c[1], c[2])) =>
                  /\ last'.ret = FALSE
                  /\ StoredUser(localStorage', user.id) = user
                  /\ getUsers(localStorage') = getUsers(localStorage)
                  /\ getCurrentUser(localStorage') = getCurrentUser(localStorage)]_vars

\* a login with the correct password on a Locked user has returned false while
\* the session slot holds a user
C2_Witness ==
    /\ last.op = "login" /\ last.ret = FALSE
    /\ last.args = <<"merchant.mutasa", "merchant123">>
    /\ Len(last.found) = 2 /\ last.found[2] = "Locked"
    /\ getCurrentUser(localStorage) # Null

\* C3: every stored user with failedLoginAttempts >= 3 has status Locked.
C3_ThreeFailuresMeansLocked ==
    \A i \in 1..Len(getUsers(localStorage)) :
        getUsers(localStorage)[i].failedLoginAttempts >= 3 =>
            getUsers(localStorage)[i].status = "Locked"

\* C4: login with the correct password on a stored Active user returns true;
\* afterwards the stored user has failedLoginAttempts = 0 and lastLogin at the
\* time of the call, its other fields but updatedAt are as before, and the
\* session slot and the reducer's current user hold that updated user (the
\* slot its JSON form, the reducer the object updateUser returned).
C4_CorrectLoginSucceeds ==
    [][\A c \in LoginInputs :
          LET user == getUserByUsername(localStorage, c[1])
              stored == StoredUser(localStorage', user.id)
          IN  (user # Null /\ user.status = "Active" /\ user.password = c[2]
                  /\ Login(c[1], c[2])) =>
                  /\ last'.ret = TRUE
                  /\ stored # Null
                  /\ stored.failedLoginAttempts = 0
                  /\ stored.lastLogin = IsoString(now)
                  /\ \A f \in DOMAIN user \ {"failedLoginAttempts", "lastLogin", "updatedAt"} :
                        stored[f] = user[f]
                  /\ getCurrentUser(localStorage') = stored
                  /\ state'.currentUser # Null
                  /\ state'.currentUser.lastLogin = DateObj(now)
                  /\ JsonEntity(state'.currentUser) = stored]_vars

\* a correct login has succeeded on a user who had two failed attempts
C4_Witness ==
    /\ last.op = "login" /\ last.ret = TRUE
    /\ last.found = <<2, "Active">>
    /\ state.currentUser # Null

\* the terminals the scoping rule gives a user
ScopedTerminals(ls, user) ==
    LET Mine(terminal) == AssignedIncludes(user, terminal.id)
    IN  IF user.role = "Merchant" THEN SelectSeq(getTerminals(ls), Mine) ELSE getTerminals(ls)

\* the tickets the scoping rule gives a user
ScopedTickets(ls, user) ==
    LET Mine(ticket) == AssignedIncludes(user, ticket.terminalId)
    IN  IF user.role = "Merchant" THEN SelectSeq(getTickets(ls), Mine) ELSE getTickets(ls)

\* C5: whenever there is a current user, accessibleTerminals is what the
\* scoping rule gives for the current user's role and assignedTerminals.
C5_AccessibleTerminalsScoped ==
    state.currentUser # Null =>
        getAccessibleTerminals(localStorage, state) = ScopedTerminals(localStorage, state.currentUser)

\* C6: whenever there is a current user, accessibleTickets is what the scoping
\* rule gives for the current user's role and assignedTerminals.
C6_AccessibleTicketsScoped ==
    state.currentUser # Null =>
        getAccessibleTickets(localStorage, state) = ScopedTickets(localStorage, state.currentUser)

\* the role-to-permission table as the specification prints it
SpecifiedGrants ==
    ({"Administrator"} \X
        {"view_all_terminals", "manage_terminals", "view_all_tickets", "manage_tickets",
         "view_analytics", "generate_reports", "manage_users", "system_admin"})
    \cup ({"Service Desk Manager"} \X
        {"view_all_terminals", "view_all_tickets", "manage_tickets", "view_analytics",
         "generate_reports", "manage_users"})
    \cup ({"Support Agent"} \X
        {"view_all_terminals", "manage_terminals", "view_all_tickets", "manage_tickets",
         "view_analytics", "generate_reports"})
    \cup ({"Merchant"} \X
        {"view_own_terminals", "view_own_tickets", "create_tickets", "view_own_analytics"})

\* C7: hasPermission(p) is true exactly when the table grants p to the current
\* user's role: manage_users only to Administrator and Service Desk Manager,
\* system_admin only to Administrator; it is false for every p when there is
\* no current user or the role is not in the table.
C7_PermissionTable ==
    /\ \A p \in Permissions \cup {"delete_everything"} :
          hasPermission(state, p) <=>
              (state.currentUser # Null /\ <<state.currentUser.role, p>> \in SpecifiedGrants)
    /\ hasPermission(state, "manage_users") <=>
          (state.currentUser # Null
              /\ state.currentUser.role \in {"Administrator", "Service Desk Manager"})
    /\ hasPermission(state, "system_admin") <=>
          (state.currentUser # Null /\ state.currentUser.role = "Administrator")
    /\ \A p \in Permissions :
          ~hasPermission([state EXCEPT !.currentUser = [role |-> "Auditor"]], p)

\* a Support Agent is the current user and is refused manage_users
C7_Witness ==
    /\ state.currentUser # Null
    /\ state.currentUser.role = "Support Agent"
    /\ ~hasPermission(state, "manage_users")
    /\ hasPermission(state, "manage_tickets")

\* C8: logout, from any state, leaves the reducer's current user and the
\* persisted session slot empty and changes nothing in the users, terminals,
\* tickets and alerts collections.
C8_LogoutClearsSession ==
    [][Logout =>
          /\ state'.currentUser = Null
          /\ getCurrentUser(localStorage') = Null
          /\ \A key \in {"users", "terminals", "tickets", "alerts"} :
                localStorage'[key] = localStorage[key]]_vars

\* a logout was made with a current user, and the session is empty
C8_Witness ==
    /\ last.op = "logout" /\ last.found = <<TRUE>>
    /\ state.currentUser = Null
    /\ getCurrentUser(localStorage) = Null

\* C9: login with a username that matches no stored user returns false and
\* leaves the users collection, the persisted session slot and the current
\* user that was in place before the call unchanged.
C9_UnknownUserChangesNothing ==
    [][\A c \in LoginInputs :
          (getUserByUsername(localStorage, c[1]) = Null /\ Login(c[1], c[2])) =>
              /\ last'.ret = FALSE
              /\ getUsers(localStorage') = getUsers(localStorage)
              /\ getCurrentUser(localStorage') = getCurrentUser(localStorage)
              /\ state'.currentUser = state.currentUser]_vars

\* C10: when the provider starts, the reducer's current user becomes the user
\* the session slot holds, and stays empty when the slot is empty; no login is
\* made, so the users collection is as before.
C10_ReloadRestoresSession ==
    [][Reload =>
          /\ state'.currentUser = getCurrentUser(localStorage)
          /\ state'.loading = FALSE /\ state'.error = NoError
          /\ getUsers(localStorage') = getUsers(localStorage)
          /\ getCurrentUser(localStorage') = getCurrentUser(localStorage)]_vars

\* the provider has started with a saved user, and that user is the current user
C10_Witness ==
    /\ last.op = "reload"
    /\ state.currentUser # Null
    /\ state.currentUser = getCurrentUser(localStorage)

\* C11: updateCurrentUser(fields) with a current user whose id is in the store
\* makes the stored user, the session slot and the reducer's current user the
\* same record, the stored user merged with the fields and updatedAt refreshed
\* (the reducer holding the object updateUser returned, the store and the slot
\* its JSON form); with no current user the users collection, the session
\* slot and the reducer state are unchanged.
C11_UpdateCurrentUserRefreshesAll ==
    [][\A updates \in UpdateInputs :
          UpdateCurrentUser(updates) =>
              IF state.currentUser = Null
              THEN /\ getUsers(localStorage') = getUsers(localStorage)
                   /\ getCurrentUser(localStorage') = getCurrentUser(localStorage)
                   /\ state' = state
              ELSE LET id == state.currentUser.id
                       before == StoredUser(localStorage, id)
                       merged == Spread(Spread(before, updates), [updatedAt |-> DateObj(now)])
                   IN  before # Null =>
                          /\ StoredUser(localStorage', id) = JsonEntity(merged)
                          /\ getCurrentUser(localStorage') = JsonEntity(merged)
                          /\ state'.currentUser = merged
                          /\ \A f \in DOMAIN updates : StoredUser(localStorage', id)[f] = updates[f]]_vars

\* updateCurrentUser was called by a stored current user and gave it a second terminal
C11_Witness ==
    /\ last.op = "updateCurrentUser"
    /\ last.found = <<TRUE, TRUE>>
    /\ state.currentUser # Null
    /\ state.currentUser.assignedTerminals = <<"T001", "T002">>
    /\ getCurrentUser(localStorage).assignedTerminals = <<"T001", "T002">>

\* C12: update(id, fields) on users, terminals and tickets: when no entity has
\* the id it returns null and the stored collection is unchanged; otherwise it
\* returns the old entity with the given fields overriding and updatedAt at
\* the time of the call, the other entities are untouched, and getById(id)
\* then returns that entity (in its JSON form).
C12_UpdateMergesOrReturnsNull ==
    [][\A key \in UpdateKeys : \A id \in UpdateIds(key), updates \in UpdateFields(key, now) :
          (last'.op = "update" /\ StoreUpdate(key, id, updates)) =>
              LET before == GetById(localStorage, key, id)
                  list == List(localStorage, key)
                  ret == last'.ret
              IN  IF before = Null
                  THEN ret = Null /\ localStorage'[key] = localStorage[key]
                  ELSE /\ ret # Null
                       /\ DOMAIN ret = DOMAIN before \cup DOMAIN updates \cup {"updatedAt"}
                       /\ \A f \in DOMAIN updates \ {"updatedAt"} : ret[f] = updates[f]
                       /\ \A f \in DOMAIN before \ (DOMAIN updates \cup {"updatedAt"}) :
                             ret[f] = before[f]
                       /\ ret.updatedAt = DateObj(now)
                       /\ GetById(localStorage', key, id) = JsonEntity(ret)
                       /\ Len(List(localStorage', key)) = Len(list)
                       /\ \A i \in 1..Len(list) :
                             list[i].id # id => List(localStorage', key)[i] = list[i]]_vars

\* an update of a stored ticket has returned the ticket, assigned and in progress
C12_Witness ==
    /\ last.op = "update"
    /\ last.args[1] = "tickets" /\ last.args[2] = "TKT-2025-001"
    /\ last.ret # Null
    /\ last.ret.status = "In Progress"
    /\ getTicketById(localStorage, "TKT-2025-001").status = "In Progress"

\* C13: deleteUser(id) returns true exactly when a stored user had that id;
\* after true, getUserById(id) returns nothing and a second deleteUser(id)
\* returns false; after false the users collection is unchanged; in both cases
\* the users with another id are kept, in the same order.
C13_DeleteUserRemovesExactlyThatUser ==
    [][\A id \in DeleteIds :
          (last'.op = "deleteUser" /\ StoreDeleteUser(id)) =>
              LET users == getUsers(localStorage)
                  Other(user) == user.id # id
              IN  /\ last'.ret = (getUserById(localStorage, id) # Null)
                  /\ last'.ret =>
                        /\ getUserById(localStorage', id) = Null
                        /\ deleteUser(localStorage', id).ret = FALSE
                  /\ ~last'.ret => localStorage'.users = localStorage.users
                  /\ getUsers(localStorage') = SelectSeq(users, Other)]_vars

\* a stored user in the middle of the collection has been deleted, the others are left
C13_Witness ==
    /\ last.op = "deleteUser"
    /\ last.args = <<"user-support-001">>
    /\ last.ret = TRUE
    /\ getUserById(localStorage, "user-support-001") = Null
    /\ Len(getUsers(localStorage)) >= 3

\* C14: after update(id, {}) has been called twice in a row on a stored entity,
\* the collection has the entities it had before the first call, in the same
\* places: the entity with that id has every field but updatedAt as it was,
\* and every other entity is as it was.
C14_EmptyUpdateTwiceChangesOnlyUpdatedAt ==
    (last.op = "update" /\ last.args[3] = <<>> /\ last.found[1] = 2) =>
        LET key == last.args[1]
            id == last.args[2]
            before == last.found[2]
            after == List(localStorage, key)
        IN  /\ Len(after) = Len(before)
            /\ \A i \in 1..Len(before) :
                  IF before[i].id = id
                  THEN /\ DOMAIN after[i] = DOMAIN before[i]
                       /\ \A f \in DOMAIN before[i] \ {"updatedAt"} : after[i][f] = before[i][f]
                  ELSE after[i] = before[i]

\* the empty update has been made twice in a row on the stored user, whose
\* updatedAt is no longer what it was before the first
C14_Witness ==
    /\ last.op = "update"
    /\ last.args = <<"users", "user-merchant-001", <<>>>>
    /\ last.found[1] = 2
    /\ last.ret # Null
    /\ \E i \in 1..Len(last.found[2]) :
          /\ last.found[2][i].id = "user-merchant-001"
          /\ getUsers(localStorage)[i].updatedAt # last.found[2][i].updatedAt

\* the place of a user in the order of creation: the fixture users in the
\* order of the fixture, then the created ones in the order of their creation
CreationRank(id) ==
    IF \E k \in 1..Len(generateSampleUsers) : generateSampleUsers[k].id = id
    THEN CHOOSE k \in 1..Len(generateSampleUsers) : generateSampleUsers[k].id = id
    ELSE Len(generateSampleUsers) + (CHOOSE n \in 1..created : FreshUserId(n) = id)

C16_FailedWriteIsSwallowed ==
    [][(quotaExceeded /\ last'.op \in {"create", "update", "deleteUser", "setCurrentUser"}) =>
          /\ \A key \in CreateKeys :
                StoreCreate(key) =>
                    /\ localStorage' = localStorage
                    /\ \A i \in 1..Len(List(localStorage, key)) :
                          List(localStorage, key)[i].id # last'.ret.id
                    /\ last'.ret.createdAt = DateObj(now)
                    /\ key = "users" => last'.ret.username = NewUserData.username
          /\ \A id \in QuotaIds :
                StoreUpdate("users", id, [status |-> "Locked"]) =>
                    LET before == getUserById(localStorage, id)
                    IN  /\ localStorage' = localStorage
                        /\ last'.ret =
                              IF before = Null THEN Null
                              ELSE Spread(Spread(before, [status |-> "Locked"]),
                                          [updatedAt |-> DateObj(now)])
          /\ \A id \in QuotaIds :
                StoreDeleteUser(id) =>
                    /\ localStorage' = localStorage
                    /\ last'.ret = (getUserById(localStorage, id) # Null)
          /\ \A id \in QuotaIds :
                (getUserById(localStorage, id) # Null /\ StoreSetCurrentUser(id)) =>
                    localStorage' = localStorage]_vars

\* deleteUser has returned true while the storage was full, and the user is still stored
C16_Witness ==
    /\ quotaExceeded
    /\ last.op = "deleteUser"
    /\ last.ret = TRUE
    /\ getUserById(localStorage, last.args[1]) # Null

\* the fixture of a collection, seeded at time t
Fixture(key, t) ==
    CASE key = "users" -> generateSampleUsers
      [] key = "terminals" -> generateSampleTerminals(t)
      [] key = "tickets" -> generateSampleTickets(t)
      [] key = "alerts" -> generateSampleAlerts(t)

C18_SeedingFillsAbsentOrEmpty ==
    [][(last'.op = "reload" /\ Reload) =>
          /\ \A key \in {"users", "terminals", "tickets", "alerts"} :
                /\ List(localStorage', key) =
                      IF List(localStorage, key) = <<>>
                      THEN JsonList(Fixture(key, now))
                      ELSE List(localStorage, key)
                /\ List(localStorage', key) # <<>>
          /\ getMetrics(localStorage') # <<>>]_vars

\* resolvedAt is set: the field is there and holds a time
ResolvedAtSet(ticket) == "resolvedAt" \in DOMAIN ticket /\ ticket.resolvedAt # Null

\* C19: in every reachable state of the tickets collection, after any
\* creations, assignments and status updates, a ticket has resolvedAt set if
\* and only if its status is Resolved.
C19_ResolvedAtIffResolved ==
    \A i \in 1..Len(getTickets(localStorage)) :
        ResolvedAtSet(getTickets(localStorage)[i])
            <=> getTickets(localStorage)[i].status = "Resolved"

\* C20: a login call changes a user's status from Active to Locked only when that user's
\* three most recent login attempts, this one included, were all wrong-password failures
\* with no successful login between them, also after an administrator unlocked the account.
C20_LockOnlyAfterThreeWrongInARow ==
    [][\A c \in LoginInputs :
          LET user == getUserByUsername(localStorage, c[1])
          IN  (/\ last'.op = "login"
               /\ user # Null
               /\ user.id \in ManagedIds
               /\ user.status = "Active"
               /\ LoginAttempt(c[1], c[2])
               /\ StoredUser(localStorage', user.id).status = "Locked")
              => attempts'[user.id] = <<"wrong", "wrong", "wrong">>]_vars

\* C21: a login with a wrong password on a stored Active user raises that user's stored
\* failedLoginAttempts by exactly 1, whatever calls came before; it leaves the user
\* Locked exactly when the raised count has reached 3 and Active otherwise, changes no
\* other user, returns false, leaves the reducer without a current user and does not
\* write the session slot.
C21_WrongPasswordCountsOnce ==
    [][\A c \in LoginInputs :
          LET user == getUserByUsername(localStorage, c[1])
              stored == StoredUser(localStorage', user.id)
          IN  (/\ last'.op = "login"
               /\ user # Null
               /\ user.status = "Active"
               /\ user.password # c[2]
               /\ Login(c[1], c[2]))
              => /\ stored # Null
                 /\ stored.failedLoginAttempts = user.failedLoginAttempts + 1
                 /\ stored.status = IF user.failedLoginAttempts + 1 >= 3 THEN "Locked" ELSE "Active"
                 /\ \A f \in DOMAIN user \ {"failedLoginAttempts", "status", "updatedAt"} :
                       stored[f] = user[f]
                 /\ Len(getUsers(localStorage')) = Len(getUsers(localStorage))
                 /\ \A i \in 1..Len(getUsers(localStorage)) :
                       getUsers(localStorage)[i].id # user.id
                          => getUsers(localStorage')[i] = getUsers(localStorage)[i]
                 /\ last'.ret = FALSE
                 /\ state'.currentUser = Null
                 /\ state'.loading = FALSE
                 /\ getCurrentUser(localStorage') = getCurrentUser(localStorage)]_vars

\* wrong passwords have been counted from 0 to 1 and from 2 to 3, the last one in a
\* tab that held a session
C21_Witness ==
    /\ last.op = "login" /\ last.ret = FALSE
    /\ last.args = <<"merchant.mutasa", "wrong">>
    /\ last.found = <<2, "Active">>
    /\ StoredUser(localStorage, "user-merchant-001").failedLoginAttempts = 3
    /\ StoredUser(localStorage, "user-merchant-001").status = "Locked"
    /\ getCurrentUser(localStorage) # Null

\* C22: accessibleTerminals and accessibleTickets are computed from the store at every
\* call: whatever was changed before (the collections, the stored role or
\* assignedTerminals of the current user), a call returns what the scoping rule gives
\* for the values stored now, as long as the current user has a stored record.
C22_AccessibleFollowsTheStore ==
    LET stored == IF state.currentUser = Null THEN Null
                  ELSE StoredUser(localStorage, state.currentUser.id)
    IN  stored # Null =>
            /\ getAccessibleTerminals(localStorage, state) = ScopedTerminals(localStorage, stored)
            /\ getAccessibleTickets(localStorage, state) = ScopedTickets(localStorage, stored)

\* C23: every login call enters Authenticating (loading true, error cleared) and always
\* leaves it: on every path, the catch block after a throwing store call included, it
\* returns with loading false, and either returns true with the current user set and no
\* error, or returns false with an error message; no call stays in flight.
C23_LoginAlwaysLeavesAuthenticating ==
    /\ [](\A t \in Tabs :
            /\ tabs[t].pc \in InFlight =>
                  tabs[t].st.loading = TRUE /\ tabs[t].st.error = NoError
            /\ tabs[t].pc = "returned" =>
                  /\ tabs[t].st.loading = FALSE
                  /\ \/ /\ tabs[t].ret = TRUE
                        /\ tabs[t].st.currentUser # Null
                        /\ tabs[t].st.error = NoError
                     \/ /\ tabs[t].ret = FALSE
                        /\ tabs[t].st.error # NoError)
    /\ \A t \in Tabs : (tabs[t].pc \in InFlight) ~> (tabs[t].pc = "returned")

\* a login has returned through the catch block, in a tab that held a session before
C23_Witness ==
    /\ tabs["A"].pc = "returned" /\ tabs["A"].ret = FALSE
    /\ tabs["A"].st.error = "Login failed. Please try again."
    /\ tabs["A"].st.currentUser = Null
    /\ getCurrentUser(localStorage) # Null

\* the fields of a user that the updateUser call at pc sets
WrittenFields(pc) ==
    CASE pc = "countWrite" -> {"failedLoginAttempts", "updatedAt"}
      [] pc = "lockWrite" -> {"status", "updatedAt"}
      [] pc = "resetWrite" -> {"lastLogin", "failedLoginAttempts", "updatedAt"}

\* C24: with two tabs on one storage a mutation is an unguarded read of the whole
\* collection, a change and a write of the whole collection, and the last write wins:
\* a tab's write leaves the stored users as that tab read them, changed at its one
\* element, so whatever another tab wrote since that read is lost; the count written
\* is the count login found plus 1, so two concurrent wrong-password logins can raise
\* failedLoginAttempts by 1 only.
C24_LastWriteWins ==
    [][\A t \in Tabs :
          (tabs[t].pc \in {"countWrite", "lockWrite", "resetWrite"} /\ tabs'[t].pc # tabs[t].pc)
          => LET read == tabs[t].users
                 i == FindIndex({k \in 1..Len(read) : read[k].id = tabs[t].user.id})
                 after == getUsers(localStorage')
             IN  /\ i # -1
                 /\ Len(after) = Len(read)
                 /\ \A k \in 1..Len(read) : k # i => after[k] = read[k]
                 /\ \A f \in DOMAIN read[i] \ WrittenFields(tabs[t].pc) : after[i][f] = read[i][f]
                 /\ tabs[t].pc = "countWrite" =>
                       after[i].failedLoginAttempts = tabs[t].user.failedLoginAttempts + 1]_vars

\* two logins with a wrong password, the only login calls made, have both returned
\* "Invalid password", and the stored count is 1
C24_Witness ==
    /\ attempts["user-merchant-001"] = <<"wrong", "wrong">>
    /\ \A t \in Tabs : /\ tabs[t].pc = "returned"
                         /\ tabs[t].ret = FALSE
                         /\ tabs[t].st.error = "Invalid password"
    /\ StoredUser(localStorage, "user-merchant-001").failedLoginAttempts = 1

\* the ids of a collection are pairwise distinct
DistinctIds(list) == \A i, j \in 1..Len(list) : list[i].id = list[j].id => i = j

\* C25: update on an existing entity changes exactly that one element in place: the
\* collection keeps its length and order, every other element is as before and the
\* updated element keeps its id, for every field set the type allows, one that names
\* id included; so after any sequence of create, update and delete the ids of a
\* collection are pairwise distinct.
C25_UpdateInPlaceKeepsIds ==
    /\ [](\A key \in IdKeys : DistinctIds(List(localStorage, key)))
    /\ [][(last'.op = "update" /\ last'.ret # Null) =>
            LET key == last'.args[1]
                id == last'.args[2]
                before == List(localStorage, key)
                after == List(localStorage', key)
            IN  /\ Len(after) = Len(before)
                /\ \A i \in 1..Len(before) :
                      IF before[i].id = id THEN after[i].id = id ELSE after[i] = before[i]]_vars

\* C26: between calls (no login in flight) the reducer's current user and the session
\* slot agree: both are empty, or both hold a user with the same id; after any
\* sequence of logins that succeed or fail, logouts and session restores.
C26_SessionAndSlotAgree ==
    LET savedUser == getCurrentUser(localStorage)
    IN  IF state.currentUser = Null THEN savedUser = Null
        ELSE savedUser # Null /\ savedUser.id = state.currentUser.id

\* C27: the session holds a snapshot of the user.  A change of the current user's stored
\* record made on the store (an edit of the role or status, a lock, a delete) leaves the
\* reducer state, the session slot and every hasPermission result as they were; until a
\* logout or a login call the session keeps its user and role, across a reload too.
C27_SessionIsASnapshot ==
    [][(last'.op \in {"other", "reload"} /\ state.currentUser # Null) =>
          /\ state'.currentUser # Null
          /\ state'.currentUser.id = state.currentUser.id
          /\ state'.currentUser.role = state.currentUser.role
          /\ \A p \in Permissions : hasPermission(state', p) = hasPermission(state, p)
          /\ getCurrentUser(localStorage') = getCurrentUser(localStorage)
          /\ last'.op = "other" => state' = state]_vars

\* a tab has been loaded again with a session whose user's stored record has since
\* been given another role and locked
C27_Witness ==
    LET stored == IF state.currentUser = Null THEN Null
                  ELSE StoredUser(localStorage, state.currentUser.id)
    IN  /\ last.op = "reload"
        /\ stored # Null
        /\ state.currentUser.role = "Merchant"
        /\ stored.role = "Administrator"
        /\ stored.status = "Locked"
        /\ hasPermission(state, "view_own_terminals")

\* the stored status of a terminal
StatusOf(ls, terminalId) == getTerminalById(ls, terminalId).status

\* C28: confirming the restart of a stored terminal sets its status to Maintenance at
\* once and schedules one callback; when the callback fires it sets the stored status
\* to Online whatever the status is then; so, provided the timer fires, the terminal
\* becomes Online, also after later status changes and after a logout.
C28_RestartEndsOnline ==
    /\ [][/\ last'.op = "confirmRestart" =>
               /\ StatusOf(localStorage', last'.args[1]) = "Maintenance"
               /\ page'.timers[last'.args[1]] = page.timers[last'.args[1]] + 1
          /\ last'.op = "restartTimer" =>
               /\ StatusOf(localStorage', last'.args[1]) = "Online"
               /\ page'.timers[last'.args[1]] = page.timers[last'.args[1]] - 1]_vars
    /\ (page.timers["T001"] > 0) ~> (StatusOf(localStorage, "T001") = "Online")

\* the timer has fired after the user signed out, on a terminal that had gone to Error
\* since the restart was confirmed
C28_Witness ==
    /\ last.op = "restartTimer"
    /\ last.found = <<"Error">>
    /\ state.currentUser = Null
    /\ StatusOf(localStorage, "T001") = "Online"

\* C29: a bulk restart sets every selected stored terminal to Maintenance, one already
\* in Maintenance too, clears the selection and schedules no later status change: no
\* timer is set by it, and a terminal in Maintenance with no timer pending leaves
\* Maintenance only by a further restart or timer step, never by itself.
C29_BulkRestartSetsNoTimer ==
    [][/\ last'.op = "handleBulkRestart" =>
            /\ \A id \in last'.found[1] : StatusOf(localStorage', id) = "Maintenance"
            /\ \A id \in RestartIds \ last'.found[1] :
                  getTerminalById(localStorage', id) = getTerminalById(localStorage, id)
            /\ page'.selectedTerminals = {}
            /\ page'.timers = page.timers
       /\ \A id \in RestartIds :
            (/\ StatusOf(localStorage, id) = "Maintenance"
             /\ StatusOf(localStorage', id) # "Maintenance")
            => /\ last'.op = "restartTimer"
               /\ last'.args = <<id>>
               /\ page.timers[id] > 0]_vars

\* both terminals were restarted together, one of them already in Maintenance from a
\* single restart whose timer has fired since; no timer is pending
C29_Witness ==
    /\ last.op = "handleBulkRestart"
    /\ last.found = <<{"T001", "T003"}>>
    /\ StatusOf(localStorage, "T001") = "Maintenance"
    /\ StatusOf(localStorage, "T003") = "Maintenance"
    /\ page.timers = [id \in RestartIds |-> 0]
    /\ page.selectedTerminals = {}

\* C30: for every role the /user-management route guard and the User Management
\* navigation entry admit the role exactly when the permission table grants it
\* manage_users; a visitor who is not signed in is redirected to /login and is shown
\* no such entry.
C30_UserManagementGuardMatchesTable ==
    /\ \A role \in UserRoles \cup {"Auditor"} :
          role \in UserManagementRoles <=> "manage_users" \in ROLE_PERMISSIONS(role)
    /\ IF state.currentUser = Null
       THEN UserManagementRoute(state) = "/login" /\ ~ShowsUserManagement(state)
       ELSE /\ UserManagementRoute(state) = "children" <=> hasPermission(state, "manage_users")
            /\ UserManagementRoute(state) = "Access Denied" <=> ~hasPermission(state, "manage_users")
            /\ ShowsUserManagement(state) <=> hasPermission(state, "manage_users")

\* a Service Desk Manager is signed in and is admitted
C30_Witness ==
    /\ state.currentUser # Null
    /\ state.currentUser.role = "Service Desk Manager"
    /\ UserManagementRoute(state) = "children"
    /\ ShowsUserManagement(state)

====
